---- MODULE Spec2Model ----
(***************************************************************************)
(* fdi: an interactive front end for `fd` (src/src/main.rs).               *)
(*                                                                         *)
(* main.rs holds two versions of the program.                              *)
(*   Spec      the compiled program: the key thread handle_keys owns the   *)
(*             directory and the query and sends AppEvents over an mpsc    *)
(*             channel; main's `for event in rx.iter()` loop draws the     *)
(*             prompt.                                                     *)
(*   LoopSpec  the single-loop draft that main's body keeps in comments    *)
(*             (lines 269-377), the only caller of spawn_fd, update_fuzz   *)
(*             and OutputLine::new: it reads the lines of `fd`, keeps them *)
(*             in `output`, scores and sorts them, and handles the keys.   *)
(* Strings are sequences of characters; a path is a sequence of            *)
(* components below the root, each component a string.                     *)
(***************************************************************************)
EXTENDS Integers, Sequences, FiniteSets, TLC

VARIABLES dir, input, key, keypc, chan, pc, prompt, output, reader, feeds

vars == <<dir, input, key, keypc, chan, pc, prompt, output, reader, feeds>>

(* ---------------- bounds ---------------- *)
MaxInput == 3
MaxChan == 2

(* ---------------- characters and strings ---------------- *)
\* "eacute" stands for a character whose UTF-8 encoding has two bytes.
Chars == {"a", "f", "s", ".", "/", "eacute"}

Utf8Len(ch) == IF ch = "eacute" THEN 2 ELSE 1

RECURSIVE ByteLen(_)
ByteLen(s) == IF s = <<>> THEN 0 ELSE Utf8Len(Head(s)) + ByteLen(Tail(s))

Prefix(s, n) == SubSeq(s, 1, n)

\* The byte offsets at which a character of s starts, and the end of s.
CharBoundaries(s) == {ByteLen(Prefix(s, n)) : n \in 0..Len(s)}

Err == [ok |-> FALSE]
Ok(v) == [ok |-> TRUE, val |-> v]

\* &s[0..n]: the prefix of s that is n bytes long; Err is the panic of a slice
\* whose end is not a character boundary.
SliceTo(s, n) ==
  IF n \in CharBoundaries(s)
  THEN Ok(CHOOSE p \in {Prefix(s, k) : k \in 0..Len(s)} : ByteLen(p) = n)
  ELSE Err

\* s.chars().take(n).collect()
TakeChars(s, n) == IF n >= Len(s) THEN s ELSE Prefix(s, n)

(* ---------------- the file system ---------------- *)
A == <<"a">>
F == <<"f">>
S == <<"s">>
Dot == <<".">>
DotDot == <<".", ".">>

Root == <<>>
Dirs == {Root, <<A>>, <<A, A>>}
Files == {<<F>>, <<A, F>>}
\* /s is a symbolic link to /a/a.
Links == {<<S>>}
LinkTarget(p) == <<A, A>>

\* str::split('/') as Path::components sees it: empty pieces are kept here and
\* skipped by the walk.
RECURSIVE Split(_)
Split(s) ==
  IF s = <<>> THEN << <<>> >>
  ELSE LET r == Split(Tail(s)) IN
       IF Head(s) = "/" THEN << <<>> >> \o r
       ELSE << <<Head(s)>> \o Head(r) >> \o Tail(r)

IsAbsolute(s) == s # <<>> /\ Head(s) = "/"

\* PathBuf::from(s) in the place of d.join(s).
JoinReplaces(d, s) == Split(s)

\* Path::join: an absolute argument replaces the path; a relative one is put
\* after a separator, so join("") leaves a trailing separator.
Join(d, s) == IF IsAbsolute(s) THEN Split(s) ELSE d \o Split(s)

None == [some |-> FALSE]
Some(v) == [some |-> TRUE, val |-> v]

\* Path::parent of a canonical path.
Parent(d) == IF d = Root THEN None ELSE Some(Prefix(d, Len(d) - 1))

\* realpath: every component is looked up in a directory; "." and an empty
\* piece stay, ".." goes up (the root is its own parent), a link is followed.
RECURSIVE Walk(_, _)
Walk(cur, comps) ==
  IF comps = <<>> THEN Ok(cur)
  ELSE IF cur \notin Dirs THEN Err
  ELSE LET c == Head(comps) IN
       IF c = <<>> \/ c = Dot THEN Walk(cur, Tail(comps))
       ELSE IF c = DotDot
       THEN Walk(IF cur = Root THEN Root ELSE Prefix(cur, Len(cur) - 1), Tail(comps))
       ELSE IF Append(cur, c) \in Dirs \cup Files
       THEN Walk(Append(cur, c), Tail(comps))
       ELSE IF Append(cur, c) \in Links
       THEN Walk(LinkTarget(Append(cur, c)), Tail(comps))
       ELSE Err

Canonicalize(p) == Walk(Root, p)

(* ---------------- keys and events ---------------- *)
\* Key::Char('\n') and Key::Char('\t') are the characters "NL" and "TAB".
NoKey == [kind |-> "None", ch |-> "-"]
CtrlC == [kind |-> "Ctrl", ch |-> "c"]
Backspace == [kind |-> "Backspace", ch |-> "-"]
OtherKey == [kind |-> "Other", ch |-> "-"]
CharKey(c) == [kind |-> "Char", ch |-> c]
Keys == {CtrlC, Backspace, OtherKey} \cup {CharKey(c) : c \in Chars \cup {"NL", "TAB"}}

IsConfirm(k) == k.kind = "Char" /\ k.ch \in {"NL", "TAB"}

Quit == [type |-> "Quit"]
Unknown == [type |-> "Unknown"]
InputEv(d, i) == [type |-> "Input", dir |-> d, input |-> i]
DirEv(d, i) == [type |-> "Dir", dir |-> d, input |-> i]

NoPrompt == [shown |-> FALSE]
Prompt(d, i) == [shown |-> TRUE, dir |-> d, input |-> i]

NoReader == [run |-> 0, dir |-> Root, unread |-> 0]

(* ---------------- the compiled program ---------------- *)
Init ==
  /\ dir \in Dirs
  /\ input = <<>>
  /\ key = NoKey
  /\ keypc = "start"
  /\ chan = <<>>
  /\ pc = "loop"
  /\ prompt = NoPrompt
  /\ output = <<>>
  /\ reader = NoReader
  /\ feeds = <<>>

loopVars == <<output, reader, feeds>>

\* tx.send: the channel is unbounded; the model holds the sender back at MaxChan.
CanSend == Len(chan) < MaxChan
Send(e) == chan' = Append(chan, e)

\* keypc is the place of handle_keys: "start" before line 159, "match" with a
\* key read and not yet handled, "panicked" once the thread has unwound, and
\* else the arm of the match that handled the last key.
\* handle_keys, line 159.
KeyStart ==
  /\ pc = "loop" /\ keypc = "start" /\ CanSend
  /\ Send(InputEv(dir, input))
  /\ keypc' = "ready"
  /\ UNCHANGED <<dir, input, key, pc, prompt, loopVars>>

\* stdin.next() returned Some(Ok(key)).
KeyNext ==
  /\ pc = "loop" /\ keypc \notin {"start", "match", "panicked"} /\ CanSend
  /\ \E k \in Keys :
       /\ (k.kind = "Char" /\ k.ch \in Chars) => Len(input) < MaxInput
       /\ key' = k
  /\ keypc' = "match"
  /\ UNCHANGED <<dir, input, chan, pc, prompt, loopVars>>

Handling(k) == pc = "loop" /\ keypc = "match" /\ key = k

KeyCtrlC ==
  /\ Handling(CtrlC)
  /\ Send(Quit)
  /\ key' = NoKey
  /\ keypc' = "quit"
  /\ UNCHANGED <<dir, input, pc, prompt, loopVars>>

\* The event sent whether or not there is a parent.
KeyAscendAlwaysSends ==
  /\ Handling(Backspace) /\ ByteLen(input) < 1
  /\ IF Parent(dir).some
     THEN /\ dir' = Parent(dir).val
          /\ keypc' = "ascended"
     ELSE /\ keypc' = "no_parent"
          /\ UNCHANGED dir
  /\ Send(DirEv(dir', input))
  /\ key' = NoKey
  /\ UNCHANGED <<input, pc, prompt, loopVars>>

\* Backspace with input.len() < 1.
KeyAscend ==
  /\ Handling(Backspace) /\ ByteLen(input) < 1
  /\ IF Parent(dir).some
     THEN /\ dir' = Parent(dir).val
          /\ Send(DirEv(dir', input))
          /\ keypc' = "ascended"
     ELSE /\ keypc' = "no_parent"
          /\ UNCHANGED <<dir, chan>>
  /\ key' = NoKey
  /\ UNCHANGED <<input, pc, prompt, loopVars>>

\* Backspace otherwise: input = input[0..input.len() - 1].to_string().
KeyErase ==
  /\ Handling(Backspace) /\ ~(ByteLen(input) < 1)
  /\ LET s == SliceTo(input, ByteLen(input) - 1) IN
       IF ~s.ok
       THEN /\ keypc' = "panicked"
            /\ UNCHANGED <<input, chan>>
       ELSE /\ input' = s.val
            /\ Send(InputEv(dir, input'))
            /\ keypc' = "erased"
  /\ key' = NoKey
  /\ UNCHANGED <<dir, pc, prompt, loopVars>>

\* input.clear() moved out of the `if let Ok`.
KeyConfirmAlwaysClears ==
  /\ pc = "loop" /\ keypc = "match" /\ IsConfirm(key)
  /\ LET r == Canonicalize(Join(dir, input)) IN
       IF r.ok
       THEN /\ dir' = r.val
            /\ Send(DirEv(dir', <<>>))
            /\ keypc' = "descended"
       ELSE /\ keypc' = "unresolved"
            /\ UNCHANGED <<dir, chan>>
  /\ input' = <<>>
  /\ key' = NoKey
  /\ UNCHANGED <<pc, prompt, loopVars>>

\* Key::Char('\n') | Key::Char('\t')
KeyConfirm ==
  /\ pc = "loop" /\ keypc = "match" /\ IsConfirm(key)
  /\ LET r == Canonicalize(Join(dir, input)) IN
       IF r.ok
       THEN /\ dir' = r.val
            /\ input' = <<>>
            /\ Send(DirEv(dir', input'))
            /\ keypc' = "descended"
       ELSE /\ keypc' = "unresolved"
            /\ UNCHANGED <<dir, input, chan>>
  /\ key' = NoKey
  /\ UNCHANGED <<pc, prompt, loopVars>>

\* The key thread drawing the prompt itself.
KeyCharDrawsPrompt ==
  /\ pc = "loop" /\ keypc = "match" /\ key.kind = "Char" /\ ~IsConfirm(key)
  /\ input' = Append(input, key.ch)
  /\ Send(InputEv(dir, input'))
  /\ prompt' = Prompt(dir, input')
  /\ key' = NoKey
  /\ keypc' = "pushed"
  /\ UNCHANGED <<dir, pc, loopVars>>

\* The event sent before the push.
KeyCharSendsBeforePush ==
  /\ pc = "loop" /\ keypc = "match" /\ key.kind = "Char" /\ ~IsConfirm(key)
  /\ input' = Append(input, key.ch)
  /\ Send(InputEv(dir, input))
  /\ key' = NoKey
  /\ keypc' = "pushed"
  /\ UNCHANGED <<dir, pc, prompt, loopVars>>

KeyChar ==
  /\ pc = "loop" /\ keypc = "match" /\ key.kind = "Char" /\ ~IsConfirm(key)
  /\ input' = Append(input, key.ch)
  /\ Send(InputEv(dir, input'))
  /\ key' = NoKey
  /\ keypc' = "pushed"
  /\ UNCHANGED <<dir, pc, prompt, loopVars>>

KeyOther ==
  /\ Handling(OtherKey)
  /\ Send(Unknown)
  /\ key' = NoKey
  /\ keypc' = "other"
  /\ UNCHANGED <<dir, input, pc, prompt, loopVars>>

\* AppEvent::Quit falling into the `_` arm: no break.
RecvQuitContinues ==
  /\ pc = "loop" /\ chan # <<>> /\ Head(chan).type = "Quit"
  /\ chan' = Tail(chan)
  /\ UNCHANGED <<dir, input, key, keypc, pc, prompt, loopVars>>

\* main, lines 234-267: one event of rx.iter().
RecvQuit ==
  /\ pc = "loop" /\ chan # <<>> /\ Head(chan).type = "Quit"
  /\ chan' = Tail(chan)
  /\ pc' = "exited"
  /\ UNCHANGED <<dir, input, key, keypc, prompt, loopVars>>

\* `let _ = write!(..)` in the place of `write!(..)?`.
RecvPromptIgnoresError ==
  /\ pc = "loop" /\ chan # <<>> /\ Head(chan).type \in {"Dir", "Input"}
  /\ chan' = Tail(chan)
  /\ \/ /\ prompt' = Prompt(Head(chan).dir, Head(chan).input)
        /\ UNCHANGED pc
     \/ UNCHANGED <<pc, prompt>>
  /\ UNCHANGED <<dir, input, key, keypc, loopVars>>

\* AppEvent::Dir and AppEvent::Input: write! and flush, either of which may fail.
RecvPrompt ==
  /\ pc = "loop" /\ chan # <<>> /\ Head(chan).type \in {"Dir", "Input"}
  /\ chan' = Tail(chan)
  /\ \/ /\ prompt' = Prompt(Head(chan).dir, Head(chan).input)
        /\ UNCHANGED pc
     \/ /\ pc' = "failed"
        /\ UNCHANGED prompt
  /\ UNCHANGED <<dir, input, key, keypc, loopVars>>

\* A break in the `_` arm.
RecvUnknownBreaks ==
  /\ pc = "loop" /\ chan # <<>> /\ Head(chan).type = "Unknown"
  /\ chan' = Tail(chan)
  /\ pc' = "exited"
  /\ UNCHANGED <<dir, input, key, keypc, prompt, loopVars>>

RecvUnknown ==
  /\ pc = "loop" /\ chan # <<>> /\ Head(chan).type = "Unknown"
  /\ chan' = Tail(chan)
  /\ UNCHANGED <<dir, input, key, keypc, pc, prompt, loopVars>>

\* rx.iter() ends when every Sender is gone: the key thread has unwound.
RecvDisconnected ==
  /\ pc = "loop" /\ chan = <<>> /\ keypc = "panicked"
  /\ pc' = "exited"
  /\ UNCHANGED <<dir, input, key, keypc, chan, prompt, loopVars>>

Next ==
  \/ KeyStart
  \/ KeyNext
  \/ KeyCtrlC
  \/ KeyAscend
  \/ KeyErase
  \/ KeyConfirm
  \/ KeyChar
  \/ KeyOther
  \/ RecvQuit
  \/ RecvPrompt
  \/ RecvUnknown
  \/ RecvDisconnected

Spec == Init /\ [][Next]_vars

\* Both threads are scheduled: a key that was read is handled, and rx.iter()
\* hands over an event that is in the channel.
FairSpec ==
  /\ Spec
  /\ WF_vars(KeyCtrlC)
  /\ WF_vars(RecvQuit)
  /\ WF_vars(RecvPrompt)
  /\ WF_vars(RecvUnknown)

(* ---------------- scoring and the entry store ---------------- *)
\* The character offsets of the leftmost alignment of pattern in data from
\* offset i on; <<-1>> when pattern is not a subsequence of data.
RECURSIVE Align(_, _, _)
Align(data, pattern, i) ==
  IF pattern = <<>> THEN <<>>
  ELSE IF i >= Len(data) THEN <<-1>>
  ELSE IF data[i + 1] = Head(pattern)
  THEN LET rest == Align(data, Tail(pattern), i + 1) IN
       IF rest = <<-1>> THEN <<-1>> ELSE <<i>> \o rest
  ELSE Align(data, pattern, i + 1)

\* What the alignment is worth: every matched character counts, a match at the
\* head of the line is a bonus, every character skipped between matches costs.
AlignScore(idx) ==
  16 * Len(idx) + (IF idx[1] = 0 THEN 8 ELSE 0)
    - (idx[Len(idx)] - idx[1] + 1 - Len(idx))

\* SkimMatcherV2::fuzzy_indices: Some((0, [])) for the empty pattern, None when
\* the pattern does not match, else the score and the matched offsets.
FuzzyIndices(data, pattern) ==
  IF pattern = <<>> THEN Some([score |-> 0, indices |-> <<>>])
  ELSE LET idx == Align(data, pattern, 0) IN
       IF idx = <<-1>> THEN None
       ELSE Some([score |-> AlignScore(idx), indices |-> idx])

\* OutputLine::new. tag is not a field of the struct: it records the
\* enumeration run the line came from and its place in the order of arrival.
NewOutputLine(data, match_with, tag) ==
  LET m == FuzzyIndices(data, match_with) IN
  IF m.some
  THEN [data |-> data, score |-> m.val.score, indices |-> m.val.indices, tag |-> tag]
  ELSE [data |-> data, score |-> 0, indices |-> <<>>, tag |-> tag]

\* OutputLine::update
UpdateLine(line, match_with) ==
  LET m == FuzzyIndices(line.data, match_with) IN
  IF m.some
  THEN [line EXCEPT !.score = m.val.score, !.indices = m.val.indices]
  ELSE line

\* The place of e in a sequence sorted by descending score: after every
\* element that does not compare greater (b.score.cmp(&a.score)).
RECURSIVE InsertByScore(_, _)
InsertByScore(sorted, e) ==
  IF sorted = <<>> THEN <<e>>
  ELSE IF Head(sorted).score >= e.score
  THEN <<Head(sorted)>> \o InsertByScore(Tail(sorted), e)
  ELSE <<e>> \o sorted

\* output.sort_by(|a, b| b.score.cmp(&a.score)): a stable sort.
RECURSIVE SortByScore(_)
SortByScore(lines) ==
  IF lines = <<>> THEN <<>>
  ELSE InsertByScore(SortByScore(Prefix(lines, Len(lines) - 1)), lines[Len(lines)])

\* update_fuzz
UpdateFuzz(lines, pattern) ==
  SortByScore([i \in 1..Len(lines) |-> UpdateLine(lines[i], pattern)])

\* Lines 276-277: push the new line, then sort.
PushLine(lines, data, match_with, run) ==
  SortByScore(Append(lines,
    NewOutputLine(data, match_with, [run |-> run, arrival |-> Len(lines) + 1])))

(* ---------------- the enumeration ---------------- *)
\* A path below d as `fd` prints it: the components joined by "/".
RECURSIVE JoinComps(_)
JoinComps(p) ==
  IF Len(p) = 1 THEN Head(p) ELSE Head(p) \o <<"/">> \o JoinComps(Tail(p))

Below(d, p) == Len(p) > Len(d) /\ Prefix(p, Len(d)) = d

\* What `fd -H` run in d prints, one path per line, in no particular order.
Listing(d) ==
  {JoinComps(SubSeq(p, Len(d) + 1, Len(p))) : p \in {q \in Dirs \cup Files \cup Links : Below(d, q)}}

(* ---------------- the single-loop draft ---------------- *)
MaxRuns == 2
MaxLines == 2
MaxQuery == 2

\* exclude_chars (line 306) has no definition in main.rs; it is taken to hold
\* the tab.
ExcludeChars == {"TAB"}

LoopInit ==
  /\ dir \in Dirs
  /\ input = <<>>
  /\ key = NoKey
  /\ keypc = "none"
  /\ chan = <<>>
  /\ pc = "select"
  /\ prompt = NoPrompt
  /\ output = <<>>
  /\ reader = [run |-> 1, dir |-> dir, unread |-> 0]
  /\ feeds = <<Listing(dir)>>

liveVars == <<key, keypc, chan>>

\* reader.next_line() gave Ok(Some(line)).
LoopLine ==
  /\ pc = "select" /\ Len(output) < MaxLines
  /\ \E line \in feeds[reader.run] :
       /\ output' = PushLine(output, line, input, reader.run)
       /\ feeds' = [feeds EXCEPT ![reader.run] = @ \ {line}]
  /\ pc' = "keys"
  /\ UNCHANGED <<dir, input, reader, prompt, liveVars>>

\* reader.next_line() gave Ok(None) or Err.
LoopNoLine ==
  /\ pc = "select"
  /\ pc' = "keys"
  /\ UNCHANGED <<dir, input, output, reader, feeds, prompt, liveVars>>

\* Where cmd.spawn() must fail: the working directory is no directory.
CanSpawn(d) == d \in Dirs

\* clear_screen(&mut stdout)?
ClearScreen == pc' \in {"render", "failed"}

\* reader = spawn_fd(&dir).await? with the child spawned. The assignment drops
\* the old reader: its pipe is closed and what its run had not delivered is
\* lost; unread counts those lines.
Spawned(d) ==
  /\ reader' = [run |-> Len(feeds) + 1, dir |-> d,
                unread |-> Cardinality(feeds[reader.run])]
  /\ feeds' = Append([r \in 1..Len(feeds) |-> {}], Listing(d))

\* spawn_fd with cmd.spawn() failing (no `fd` to run, no directory to run it
\* in): expect panics.
SpawnPanics ==
  /\ pc' = "panicked"
  /\ UNCHANGED <<reader, feeds>>

\* A forgotten output.clear().
ChangeDirKeepsOutput(d) ==
  /\ dir' = d
  /\ UNCHANGED output
  /\ \/ CanSpawn(d) /\ Spawned(d) /\ ClearScreen
     \/ SpawnPanics

\* dir = d; output.clear(); reader = spawn_fd(&dir).await?; clear_screen
ChangeDir(d) ==
  /\ dir' = d
  /\ output' = <<>>
  /\ \/ CanSpawn(d) /\ Spawned(d) /\ ClearScreen
     \/ SpawnPanics

LoopCtrlC ==
  /\ pc = "keys"
  /\ pc' = "exited"
  /\ UNCHANGED <<dir, input, output, reader, feeds, prompt, liveVars>>

LoopEnter ==
  /\ pc = "keys"
  /\ LET r == Canonicalize(Join(dir, input)) IN
       IF r.ok
       THEN /\ Len(feeds) < MaxRuns
            /\ input' = <<>>
            /\ ChangeDir(r.val)
       ELSE /\ pc' = "render"
            /\ UNCHANGED <<dir, input, output, reader, feeds>>
  /\ UNCHANGED <<prompt, liveVars>>

LoopChar ==
  /\ pc = "keys" /\ Len(input) < MaxQuery
  /\ \E ch \in Chars \cup {"TAB"} :
       IF ch \notin ExcludeChars
       THEN /\ input' = Append(input, ch)
            /\ output' = UpdateFuzz(output, input')
            /\ ClearScreen
       ELSE /\ pc' = "render"
            /\ UNCHANGED <<input, output>>
  /\ UNCHANGED <<dir, reader, feeds, prompt, liveVars>>

LoopAscend ==
  /\ pc = "keys" /\ ByteLen(input) < 1
  /\ input' = <<>>
  /\ IF Parent(dir).some
     THEN /\ Len(feeds) < MaxRuns
          /\ ChangeDir(Parent(dir).val)
     ELSE /\ ClearScreen
          /\ UNCHANGED <<dir, output, reader, feeds>>
  /\ UNCHANGED <<prompt, liveVars>>

LoopErase ==
  /\ pc = "keys" /\ ~(ByteLen(input) < 1)
  /\ input' = TakeChars(input, ByteLen(input) - 1)
  /\ output' = UpdateFuzz(output, input')
  /\ ClearScreen
  /\ UNCHANGED <<dir, reader, feeds, prompt, liveVars>>

\* No key this turn, or a key of the `_ => {}` arm.
LoopNoKey ==
  /\ pc = "keys"
  /\ pc' = "render"
  /\ UNCHANGED <<dir, input, output, reader, feeds, prompt, liveVars>>

\* Lines 340-374: the rows, the counter and the prompt are written and flushed.
LoopRender ==
  /\ pc = "render"
  /\ pc' \in {"select", "failed"}
  /\ UNCHANGED <<dir, input, output, reader, feeds, prompt, liveVars>>

LoopNext ==
  \/ LoopLine
  \/ LoopNoLine
  \/ LoopCtrlC
  \/ LoopEnter
  \/ LoopChar
  \/ LoopAscend
  \/ LoopErase
  \/ LoopNoKey
  \/ LoopRender

LoopSpec == LoopInit /\ [][LoopNext]_vars

(* ---------------- properties ---------------- *)
Range(f) == {f[i] : i \in DOMAIN f}

\* A step of handle_keys that handles the key it has read.
HandlesKey == keypc = "match" /\ keypc' # "match"

\* C1: every line in the entry store comes from the enumeration run of the
\* current directory; no line of an earlier run is in the store once the reader
\* has been replaced.
GenerationIsolation ==
  \A i \in 1..Len(output) : output[i].tag.run = reader.run

\* The directory has changed while lines of the earlier run were undelivered,
\* and lines of the new run have been appended since.
GenerationIsolationWitness ==
  reader.run > 1 /\ reader.unread > 0 /\ output # <<>>

\* C2: a confirm whose joined path does not resolve changes neither the
\* directory nor the query and sends no event.
ConfirmUnresolvedIsNoOp ==
  [][(HandlesKey /\ IsConfirm(key) /\ ~Canonicalize(Join(dir, input)).ok)
       => UNCHANGED <<dir, input, chan, output, reader, feeds>>]_vars

\* A confirm of a query that names nothing has been handled.
ConfirmUnresolvedWitness ==
  keypc = "unresolved" /\ input = <<"f", "a">> /\ dir = Root

\* C3: the current directory is always an existing directory.
DirIsDirectory == dir \in Dirs

\* C4: Backspace with an empty query in the root changes nothing and sends no
\* event.
AscendAtRootIsNoOp ==
  [][(HandlesKey /\ key = Backspace /\ input = <<>> /\ dir = Root)
       => UNCHANGED <<dir, input, chan, output, reader, feeds>>]_vars

\* Backspace has been handled in the root with an empty query.
AscendAtRootWitness ==
  keypc = "no_parent" /\ dir = Root /\ input = <<>>

\* C5: Backspace on a non-empty query removes exactly its last character and
\* is a query edit; on an empty query it leaves the query alone.
BackspaceRemovesLastChar ==
  [][(HandlesKey /\ key = Backspace)
       => IF input # <<>>
          THEN /\ input' = Prefix(input, Len(input) - 1)
               /\ dir' = dir
               /\ chan' = Append(chan, InputEv(dir, input'))
          ELSE input' = input]_vars

\* C6: every change of directory leaves the query and the store empty and
\* starts a new enumeration in the new directory.
DirChangeRestarts ==
  [][dir' # dir
       => /\ input' = <<>>
          /\ output' = <<>>
          /\ reader'.run = reader.run + 1
          /\ reader'.dir = dir'
          /\ feeds'[reader'.run] = Listing(dir')]_vars

\* C7 as stated: after every successful Descend the parent of the new
\* directory, where Ascend goes, is the directory the Descend started from.
RoundTrip ==
  [][(HandlesKey /\ keypc' = "descended")
       => (Parent(dir').some /\ Parent(dir').val = dir)]_vars

\* The query is the name of a subdirectory of d that is no symbolic link.
NamesSubdirectory(d, q) ==
  /\ q # <<>> /\ "/" \notin Range(q) /\ q \notin {Dot, DotDot}
  /\ Append(d, q) \in Dirs

\* C7 amended: a Descend by the name of a subdirectory, followed by Ascend,
\* ends in the directory it started from.
RoundTripOfSubdirectory ==
  [][(HandlesKey /\ keypc' = "descended" /\ NamesSubdirectory(dir, input))
       => (Parent(dir').some /\ Parent(dir').val = dir)]_vars

\* The query "a" typed in /a was drawn, and the Descend it named has been
\* handled and not yet drawn.
RoundTripWitness ==
  /\ keypc = "descended" /\ dir = <<A, A>>
  /\ prompt = Prompt(<<A>>, <<"a">>)
  /\ chan = <<DirEv(<<A, A>>, <<>>)>>

\* C8: a confirm with an empty query changes nothing and sends no event.
EmptyConfirmIsNoOp ==
  [][(HandlesKey /\ IsConfirm(key) /\ input = <<>>)
       => UNCHANGED <<dir, input, chan, output, reader, feeds>>]_vars

\* C9: the score and the match positions of every entry are those of its text
\* scored against the current query, zero and none when it does not match.
ScoresAreCurrent ==
  \A i \in 1..Len(output) :
    LET fresh == NewOutputLine(output[i].data, input, output[i].tag) IN
    output[i].score = fresh.score /\ output[i].indices = fresh.indices

\* C10: when the rows are drawn, the store is sorted by descending score and
\* entries of equal score are in the order of their arrival.
SortedInArrivalOrder ==
  pc = "render" =>
    \A i, j \in 1..Len(output) :
      i < j => \/ output[i].score > output[j].score
               \/ /\ output[i].score = output[j].score
                  /\ output[i].tag.arrival < output[j].tag.arrival
\* C11: rescoring any store the program can hold against the empty query a
\* second time changes nothing, and the order it leaves is the order of arrival.
EmptyQueryGivesArrivalOrder ==
  LET once == UpdateFuzz(output, <<>>) IN
  /\ UpdateFuzz(once, <<>>) = once
  /\ \A i, j \in 1..Len(once) : i < j => once[i].tag.arrival < once[j].tag.arrival

\* The store with every entry scored afresh against q, and sorted.
Rescored(lines, q) ==
  SortByScore([i \in 1..Len(lines) |-> NewOutputLine(lines[i].data, q, lines[i].tag)])

\* C12: a query edit leaves the store scored against exactly the new query and
\* sorted, so the rows drawn next belong to the query in the prompt.
QueryEditRescores ==
  [][(pc = "keys" /\ input' # input /\ reader' = reader /\ pc' # "panicked")
       => output' = Rescored(output, input')]_vars

\* C15: no failure of the enumerator ends the session.
EnumeratorFailureIsNotFatal == pc # "panicked"

\* A step of main's loop that takes the event e from the channel.
Takes(e) == chan # <<>> /\ Head(chan) = e /\ chan' = Tail(chan)
TakesOne == chan # <<>> /\ chan' = Tail(chan)

QuitEndsSession ==
  [](pc # "failed") => ((keypc = "match" /\ key = CtrlC) ~> pc = "exited")

\* Quit has been sent and handled.
QuitEndsSessionWitness ==
  keypc = "quit" /\ pc = "exited" /\ prompt # NoPrompt

\* C16: an event whose prompt cannot be written ends the loop with the error,
\* and nothing is handled or drawn after that.
WriteFailureIsFatal ==
  [][/\ (TakesOne /\ Head(chan).type \in {"Dir", "Input"})
          => \/ prompt' = Prompt(Head(chan).dir, Head(chan).input) /\ pc' = pc
             \/ pc' = "failed" /\ prompt' = prompt
     /\ pc = "failed" => UNCHANGED <<pc, chan, prompt, dir, input>>]_vars

\* The loop has ended with a write error while events were waiting.
WriteFailureWitness ==
  pc = "failed" /\ Len(chan) = MaxChan - 1 /\ prompt # NoPrompt

\* C17: a character, or Backspace on a non-empty query, changes the query,
\* leaves the directory alone and sends exactly one Input event with the
\* directory and the new query.
QueryEditSendsOneEvent ==
  [][(HandlesKey /\ \/ key.kind = "Char" /\ ~IsConfirm(key)
                    \/ key = Backspace /\ input # <<>>)
       => /\ dir' = dir
          /\ input' # input
          /\ chan' = Append(chan, InputEv(dir, input'))
          /\ UNCHANGED <<output, reader, feeds>>]_vars

\* The last pair sent and not yet drawn, or else the pair drawn.
LatestSent ==
  LET sent == {i \in 1..Len(chan) : chan[i].type \in {"Dir", "Input"}} IN
  IF sent = {} THEN prompt
  ELSE LET last == CHOOSE i \in sent : \A j \in sent : j <= i IN
       Prompt(chan[last].dir, chan[last].input)

\* C18: the coordinator draws the pairs in the order they were sent, and the
\* last pair sent, which is the last to be drawn, is the directory and the
\* query the key thread holds.
PromptFollowsKeys ==
  /\ []((pc = "loop" /\ keypc # "start") => LatestSent = Prompt(dir, input))
  /\ [][prompt' # prompt
          => TakesOne /\ prompt' = Prompt(Head(chan).dir, Head(chan).input)]_vars

\* After a Descend and a character the channel has drained and the prompt
\* shows both.
PromptFollowsKeysWitness ==
  /\ keypc = "pushed" /\ chan = <<>> /\ pc = "loop"
  /\ dir = <<A, A>> /\ input = <<"f">> /\ prompt = Prompt(dir, input)

\* C19: the key thread never stops, and the coordinator loop ends only on a
\* Quit event or a write error.
SessionEndsOnlyByQuit ==
  /\ [](keypc # "panicked")
  /\ [][pc' # pc => (pc' = "failed" \/ (chan # <<>> /\ Head(chan).type = "Quit"))]_vars

\* C20: a key of the `_` arm changes neither directory, query nor prompt and
\* sends one Unknown event, which the coordinator takes without changing
\* anything else.
OtherKeyIsIgnored ==
  [][/\ (HandlesKey /\ key = OtherKey)
          => /\ chan' = Append(chan, Unknown)
             /\ UNCHANGED <<dir, input, prompt, pc, output, reader, feeds>>
     /\ Takes(Unknown)
          => UNCHANGED <<dir, input, prompt, pc, key, keypc, output, reader, feeds>>]_vars

\* An Unknown event has been sent and taken, and the session goes on.
OtherKeyIsIgnoredWitness ==
  /\ keypc = "other" /\ chan = <<>> /\ pc = "loop"
  /\ input # <<>> /\ prompt = Prompt(dir, input)

====
